---- MODULE Spec2Model ----
(***************************************************************************)
(* Model of TaskPool (packages/core/src/utils/task-pool.ts): a sequential  *)
(* task queue running on the single-threaded JavaScript event loop.        *)
(*                                                                         *)
(* Every action is one run-to-completion slice of the event loop: a call   *)
(* of a public method up to its first await, the continuation of           *)
(* processNextTask after the work function settled, a setImmediate         *)
(* callback, or one timer wake-up of the polling loop of cleanup().        *)
(* TaskRun objects are shared by reference between the queue, the current  *)
(* slot and the history, so they live in a heap (runs) and the three       *)
(* containers hold heap indices. A heap index is the position of the run   *)
(* in the order of the accepted enqueue calls.                             *)
(*                                                                         *)
(* ret, invoked, termLog, sinceClear, awaited, replaced and held record    *)
(* what the callers and the callback observe; the pool never reads them.   *)
(*                                                                         *)
(* The module also models RetryHandler (packages/core/src/errors/          *)
(* error-handler.ts): one execute() call, a slice being the call up to the *)
(* first await, the continuation after the operation settled, or the       *)
(* continuation after the delay; and CircuitBreaker (same file): any       *)
(* number of execute() calls in flight at a time, a slice being a call up  *)
(* to its first await or the continuation after its operation settled.     *)
(* Each component has its own specification; in the specification of one   *)
(* component the others stay as constructed.                               *)
(***************************************************************************)
EXTENDS Integers, Sequences, FiniteSets, TLC

----------------------------------------------------------------------------
(* Bounds of the model *)

\* number of successful enqueue calls explored
MaxRuns == 3
\* last instant of the wall clock (Date.now() ranges over 0..MaxTime)
MaxTime == 1
\* largest maxHistorySize option explored (the option ranges over 1..MaxHistory)
MaxHistory == 2
\* number of cleanup() calls that may sleep in the polling loop at a time
MaxCleanups == 2
\* largest maxAttempts of a RetryHandler explored (it ranges over 0..MaxAttempts)
MaxAttempts == 4
\* number of execute() calls made on a CircuitBreaker
MaxCalls == 4
\* largest failureThreshold explored (it ranges over 1..MaxThreshold)
MaxThreshold == 3
\* last instant of the clock of a CircuitBreaker (Date.now() ranges over
\* 0..MaxElapsed, resetTimeoutMs over 1..MaxElapsed)
MaxElapsed == 2

\* the defaults of the constructors
DefaultMaxHistorySize == 100
DefaultMaxAttempts == 3
DefaultBaseDelayMs == 1000
DefaultFailureThreshold == 5
DefaultResetTimeoutMs == 60000
\* the base delays explored: none, the one of the tests, the default
BaseDelays == {0, 10, DefaultBaseDelayMs}

\* The pool never reads the parameters of a run, it only hands them to the
\* work function, so the callers are those of the test suite: the k-th run
\* created carries {value: k}.
NextParams(s) == Len(s.runs) + 1
\* callbacks that setOnProcessed can install
Callbacks == {1, 2}
\* what an invocation of the processed callback does: return normally, call
\* enqueue on the pool and return, or throw
CallbackBehaviours == {"return", "enqueue", "throw"}
\* the callback overwrites the status of its argument and returns
TamperingBehaviours == {"tamper"}
\* how an invocation of the work function settles, in a later slice than the
\* one that called it (it is an async function): it resolves with a value, it
\* rejects with new Error("boom"), or it rejects with the string "boom"
Outcomes == {"resolve", "rejectError", "rejectValue"}
\* the work function resolves with undefined (a Task<TParams, void>)
VoidOutcomes == {"resolveUndefined"}
Resolutions == {"resolve", "resolveUndefined"}

----------------------------------------------------------------------------
(* TaskRunStatus *)

PENDING == "pending"
RUNNING == "running"
COMPLETED == "completed"
FAILED == "failed"

\* an optional field is a sequence of length 0 (undefined) or 1
Undefined == <<>>
Some(v) == <<v>>

\* the message of the shutdown error thrown by enqueue
ShutdownError == "Task pool is shutting down, cannot enqueue new tasks"

VARIABLES
    maxHistorySize,  \* options.maxHistorySize
    runs,            \* heap of TaskRun objects, in allocation order
    queue,           \* this.queue: heap indices
    history,         \* this.history: heap indices
    currentRun,      \* this.currentRun: heap index, 0 for undefined
    isProcessing,    \* this.isProcessing
    isShuttingDown,  \* this.isShuttingDown
    runCounter,      \* this.runCounter
    onProcessed,     \* this.onProcessed: a callback, 0 for undefined
    active,          \* activations of processNextTask awaiting this.task(...)
    immediates,      \* pending setImmediate(() => this.processNextTask())
    cleanups,        \* cleanup() calls sleeping in the polling loop
    resolved,        \* TRUE once a cleanup() call has resolved
    now,             \* the clock read by new Date() / Date.now()
    ret,             \* outcome of the latest enqueue call of a caller
    invoked,         \* callback invocations made by the latest slice
    termLog,         \* runs in the order they reached a terminal state
    sinceClear,      \* runs that terminated since the last clearHistory()
    awaited,         \* the run the sleeping cleanup() calls wait for, 0 for none
    replaced,        \* an installed callback was replaced during the current run
    held,            \* the record a caller overwrote in the latest slice
    spinning         \* the event loop is inside a loop that never exits

\* RetryHandler and one execute(operation, shouldRetry) call
VARIABLES
    maxAttempts,     \* this.maxAttempts
    baseDelayMs,     \* this.baseDelayMs
    retryPc,         \* where the call is: "idle", "operation", "delay",
                     \* "resolved" or "rejected"
    attempt,         \* the loop variable, 0 before the call
    lastError,       \* the local lastError
    opCalls,         \* invocations of the operation so far
    opOutcomes,      \* how the invocations settled, in order
    delays,          \* the arguments of the delay(ms) calls, in order
    consulted,       \* the shouldRetry calls: the error passed and the answer
    settled          \* what the promise of execute settled with

\* CircuitBreaker and its execute(operation, operationName) calls
VARIABLES
    failureThreshold, \* this.failureThreshold
    resetTimeoutMs,   \* this.resetTimeoutMs
    failures,         \* this.failures
    lastFailureTime,  \* this.lastFailureTime
    state,            \* this.state
    inFlight,         \* operations awaited, by the state of the breaker
                      \* when execute was called
    calls,            \* execute calls made so far
    failedAt,         \* when an operation failed last
    returned          \* what the execute call of the latest slice settled with

breakerVars == <<failureThreshold, resetTimeoutMs, failures, lastFailureTime,
                 state, inFlight, calls, failedAt, returned>>

retryVars == <<maxAttempts, baseDelayMs, retryPc, attempt, lastError, opCalls,
               opOutcomes, delays, consulted, settled>>

poolVars == <<maxHistorySize, runs, queue, history, currentRun, isProcessing,
              isShuttingDown, runCounter, onProcessed, active, immediates,
              cleanups, resolved, now, ret, invoked, termLog, sinceClear,
              awaited, replaced, held, spinning>>

vars == <<maxHistorySize, runs, queue, history, currentRun, isProcessing,
          isShuttingDown, runCounter, onProcessed, active, immediates,
          cleanups, resolved, now, ret, invoked, termLog, sinceClear,
          awaited, replaced, held, spinning,
          maxAttempts, baseDelayMs, retryPc, attempt,
          lastError, opCalls, opOutcomes, delays, consulted, settled,
          failureThreshold, resetTimeoutMs, failures, lastFailureTime, state,
          inFlight, calls, failedAt, returned>>

\* The pool and its event-loop context at the start of a slice, as one value,
\* so that a handler can call another handler. threw is the pending exception
\* of the slice.
Pool ==
    [maxHistorySize |-> maxHistorySize, runs |-> runs, queue |-> queue,
     history |-> history, currentRun |-> currentRun,
     isProcessing |-> isProcessing, isShuttingDown |-> isShuttingDown,
     runCounter |-> runCounter, onProcessed |-> onProcessed,
     active |-> active, immediates |-> immediates, cleanups |-> cleanups,
     resolved |-> resolved, ret |-> ret, invoked |-> <<>>,
     termLog |-> termLog, sinceClear |-> sinceClear, awaited |-> awaited,
     replaced |-> replaced, held |-> Undefined, spinning |-> spinning,
     threw |-> FALSE]

\* the state at the end of a slice; no slice starts while the event loop is
\* inside a loop that never exits
Commit(s) ==
    /\ ~spinning
    /\ spinning' = s.spinning
    /\ maxHistorySize' = s.maxHistorySize
    /\ runs' = s.runs
    /\ queue' = s.queue
    /\ history' = s.history
    /\ currentRun' = s.currentRun
    /\ isProcessing' = s.isProcessing
    /\ isShuttingDown' = s.isShuttingDown
    /\ runCounter' = s.runCounter
    /\ onProcessed' = s.onProcessed
    /\ active' = s.active
    /\ immediates' = s.immediates
    /\ cleanups' = s.cleanups
    /\ resolved' = s.resolved
    /\ ret' = s.ret
    /\ invoked' = s.invoked
    /\ termLog' = s.termLog
    /\ sinceClear' = s.sinceClear
    /\ awaited' = s.awaited
    /\ replaced' = s.replaced
    /\ held' = s.held
    /\ UNCHANGED retryVars
    /\ UNCHANGED breakerVars

----------------------------------------------------------------------------
(* Helpers *)

SeqToSet(q) == {q[i] : i \in 1..Len(q)}

Reverse(q) == [i \in 1..Len(q) |-> q[Len(q) + 1 - i]]

Min(a, b) == IF a < b THEN a ELSE b

Max(a, b) == IF a < b THEN b ELSE a

\* Array.prototype.slice(0, end): a negative end counts from the end of the
\* array, and the result is clamped to the array
SliceTo(q, end) ==
    LET e == IF end < 0 THEN Max(Len(q) + end, 0) ELSE Min(end, Len(q))
    IN SubSeq(q, 1, e)

Terminal == {COMPLETED, FAILED}

\* the test work function: {doubled: value * 2}
TaskResult(p) == p * 2

\* what the awaited work function evaluates to when it resolves
Resolved(outcome, p) ==
    IF outcome = "resolve" THEN Some(TaskResult(p)) ELSE Undefined

\* what the work function throws: new Error("boom"), or the string "boom"
Thrown(outcome) ==
    IF outcome = "rejectError"
    THEN [isError |-> TRUE, message |-> "boom"]
    ELSE [isError |-> FALSE, value |-> "boom"]

\* what a caller does to a TaskRun record it was given: taskRun.status = PENDING
Overwrite(taskRun) == [taskRun EXCEPT !.status = PENDING]

\* String(v) of a string v
StringOf(v) == v

\* error instanceof Error ? error : new Error(String(error))
NormalizeError(e) ==
    IF e.isError THEN e ELSE [isError |-> TRUE, message |-> StringOf(e.value)]

----------------------------------------------------------------------------
(* The clock readings of a slice *)

\* The reads of the clock in a slice, each named after what it writes:
\* completedAt (new Date() in the continuation of processNextTask), then, in
\* an enqueue call, id (Date.now() in generateRunId), queuedAt (new Date() in
\* enqueue) and startedAt (new Date() in processNextTask).
ReadPoints == {"completedAt", "id", "queuedAt", "startedAt"}

\* the clock reads n at every read of the slice
Still(n) == [p \in ReadPoints |-> n]

\* the readings of a slice that begins at instant from, on a clock that does
\* not go back
Readings(from) ==
    {t \in [ReadPoints -> from..MaxTime] :
        /\ t.completedAt <= t.id
        /\ t.id <= t.queuedAt
        /\ t.queuedAt <= t.startedAt}

----------------------------------------------------------------------------
(* Private methods *)

\* generateRunId naming the run after the timestamp only
generateRunId_TimestampOnly(s, t) == "run-" \o ToString(t.id)

\* generateRunId: `run-${timestamp}-${this.runCounter}`, the counter having
\* been incremented
generateRunId(s, t) ==
    "run-" \o ToString(t.id) \o "-" \o ToString(s.runCounter + 1)

\* the while loop of addToHistory: shift() while the array is too long
RECURSIVE TrimHistory(_, _)
TrimHistory(h, max) ==
    IF Len(h) > max THEN TrimHistory(Tail(h), max) ELSE h

\* addToHistory trimming with pop() instead of shift()
addToHistory_Pop(s, r) ==
    [s EXCEPT !.history =
        LET h == Append(@, r)
        IN IF Len(h) > s.maxHistorySize THEN SubSeq(h, 1, s.maxHistorySize) ELSE h]

\* addToHistory; with a negative maxHistorySize the test of the trim loop
\* (length > maxHistorySize) is still true when the array is empty, where
\* shift() changes nothing: the loop never exits
addToHistory(s, r) ==
    IF s.maxHistorySize < 0
    THEN [s EXCEPT !.history = <<>>, !.spinning = TRUE]
    ELSE [s EXCEPT !.history = TrimHistory(Append(@, r), s.maxHistorySize)]

\* processNextTask without the test of isProcessing
processNextTask_NoBusyTest(s, t) ==
    IF s.isShuttingDown \/ Len(s.queue) = 0
    THEN s
    ELSE LET r == Head(s.queue) IN
         [s EXCEPT !.isProcessing = TRUE,
                   !.queue = Tail(@),
                   !.currentRun = r,
                   !.runs[r].status = RUNNING,
                   !.runs[r].startedAt = Some(t.startedAt),
                   !.runs[r].queueTime = Some(t.startedAt - s.runs[r].queuedAt),
                   !.active = @ \cup {r}]

\* processNextTask without the test of isShuttingDown
processNextTask_NoShutdownTest(s, t) ==
    IF s.isProcessing \/ Len(s.queue) = 0
    THEN s
    ELSE LET r == Head(s.queue) IN
         [s EXCEPT !.isProcessing = TRUE,
                   !.queue = Tail(@),
                   !.currentRun = r,
                   !.runs[r].status = RUNNING,
                   !.runs[r].startedAt = Some(t.startedAt),
                   !.runs[r].queueTime = Some(t.startedAt - s.runs[r].queuedAt),
                   !.active = @ \cup {r}]

\* processNextTask taking the run with queue.pop() instead of queue.shift()
processNextTask_Pop(s, t) ==
    IF s.isProcessing \/ s.isShuttingDown \/ Len(s.queue) = 0
    THEN s
    ELSE LET r == s.queue[Len(s.queue)] IN
         [s EXCEPT !.isProcessing = TRUE,
                   !.queue = SubSeq(@, 1, Len(@) - 1),
                   !.currentRun = r,
                   !.runs[r].status = RUNNING,
                   !.runs[r].startedAt = Some(t.startedAt),
                   !.runs[r].queueTime = Some(t.startedAt - s.runs[r].queuedAt),
                   !.active = @ \cup {r}]

\* processNextTask reading the head of the queue without removing it
\* (queue[0] instead of queue.shift())
processNextTask_Peek(s, t) ==
    IF s.isProcessing \/ s.isShuttingDown \/ Len(s.queue) = 0
    THEN s
    ELSE LET r == Head(s.queue) IN
         [s EXCEPT !.isProcessing = TRUE,
                   !.currentRun = r,
                   !.runs[r].status = RUNNING,
                   !.runs[r].startedAt = Some(t.startedAt),
                   !.runs[r].queueTime = Some(t.startedAt - s.runs[r].queuedAt),
                   !.active = @ \cup {r}]

\* processNextTask leaving the status of the run it starts untouched
processNextTask_KeepStatus(s, t) ==
    IF s.isProcessing \/ s.isShuttingDown \/ Len(s.queue) = 0
    THEN s
    ELSE LET r == Head(s.queue) IN
         [s EXCEPT !.isProcessing = TRUE,
                   !.queue = Tail(@),
                   !.currentRun = r,
                   !.runs[r].startedAt = Some(t.startedAt),
                   !.runs[r].queueTime = Some(t.startedAt - s.runs[r].queuedAt),
                   !.active = @ \cup {r}]

\* processNextTask up to `await this.task(taskRun.params)`; queue.shift()
\* cannot return undefined here, the queue was tested to be non-empty
processNextTask(s, t) ==
    IF s.isProcessing \/ s.isShuttingDown \/ Len(s.queue) = 0
    THEN s
    ELSE LET r == Head(s.queue) IN
         [s EXCEPT !.isProcessing = TRUE,
                   !.queue = Tail(@),
                   !.currentRun = r,
                   !.runs[r].status = RUNNING,
                   !.runs[r].startedAt = Some(t.startedAt),
                   !.runs[r].queueTime = Some(t.startedAt - s.runs[r].queuedAt),
                   !.active = @ \cup {r}]

\* enqueue; t gives what the clock reads at each read of the slice: t.id in
\* generateRunId, t.queuedAt here, t.startedAt in processNextTask
enqueue(s, p, t) ==
    IF s.isShuttingDown
    THEN [s EXCEPT !.ret = [ok |-> FALSE, id |-> "", error |-> ShutdownError]]
    ELSE LET runId == generateRunId(s, t)
             taskRun == [id |-> runId, params |-> p, status |-> PENDING,
                         result |-> Undefined, error |-> Undefined,
                         queuedAt |-> t.queuedAt, startedAt |-> Undefined,
                         completedAt |-> Undefined, duration |-> Undefined,
                         queueTime |-> Undefined]
             s1 == [s EXCEPT !.runCounter = @ + 1,
                             !.runs = Append(@, taskRun),
                             !.queue = Append(@, Len(s.runs) + 1)]
             s2 == processNextTask(s1, t)
         IN [s2 EXCEPT !.ret = [ok |-> TRUE, id |-> runId, error |-> ""]]

\* the catch block storing the rejection as the result as well
settle_ResultOnFailure(s, r, outcome, t) ==
    IF outcome \in Resolutions
    THEN [s EXCEPT !.runs[r].status = COMPLETED,
                   !.runs[r].result = Resolved(outcome, s.runs[r].params),
                   !.runs[r].completedAt = Some(t.completedAt),
                   !.runs[r].duration = Some(t.completedAt - s.runs[r].startedAt[1])]
    ELSE [s EXCEPT !.runs[r].status = FAILED,
                   !.runs[r].result = Some(0),
                   !.runs[r].error = Some(NormalizeError(Thrown(outcome))),
                   !.runs[r].completedAt = Some(t.completedAt),
                   !.runs[r].duration = Some(t.completedAt - s.runs[r].startedAt[1])]

\* the try/catch around the awaited work function: the run becomes terminal;
\* assigning undefined to taskRun.result leaves the field undefined
settle(s, r, outcome, t) ==
    IF outcome \in Resolutions
    THEN [s EXCEPT !.runs[r].status = COMPLETED,
                   !.runs[r].result = Resolved(outcome, s.runs[r].params),
                   !.runs[r].completedAt = Some(t.completedAt),
                   !.runs[r].duration = Some(t.completedAt - s.runs[r].startedAt[1])]
    ELSE [s EXCEPT !.runs[r].status = FAILED,
                   !.runs[r].error = Some(NormalizeError(Thrown(outcome))),
                   !.runs[r].completedAt = Some(t.completedAt),
                   !.runs[r].duration = Some(t.completedAt - s.runs[r].startedAt[1])]

\* "Move to history and cleanup" leaving this.currentRun set
release_KeepCurrentRun(s, r) ==
    [addToHistory(s, r) EXCEPT !.isProcessing = FALSE]

\* "Move to history and cleanup"; the two assignments are reached when
\* addToHistory returns
release(s, r) ==
    LET s1 == addToHistory(s, r)
    IN IF s1.spinning
       THEN s1
       ELSE [s1 EXCEPT !.currentRun = 0, !.isProcessing = FALSE]

\* this.onProcessed?.(taskRun): the invocation is recorded with what the
\* callback can observe of the pool at that instant, then the callback acts;
\* the promise of an enqueue call made by the callback stays with the callback;
\* the argument is the TaskRun object of the pool, so that a write of the
\* callback to it is a write to the heap
invokeCallback(s, r, beh, t) ==
    IF s.onProcessed = 0
    THEN s
    ELSE LET call == [cb |-> s.onProcessed, run |-> r,
                      status |-> s.runs[r].status,
                      inHistory |-> r \in SeqToSet(s.history),
                      isProcessing |-> s.isProcessing,
                      currentRun |-> s.currentRun,
                      replaced |-> s.replaced]
             s1 == [s EXCEPT !.invoked = Append(@, call), !.replaced = FALSE]
         IN CASE beh = "enqueue" /\ Len(s.runs) < MaxRuns ->
                   [enqueue(s1, NextParams(s1), t) EXCEPT !.ret = s.ret]
              [] beh = "throw" -> [s1 EXCEPT !.threw = TRUE]
              [] beh = "tamper" -> [s1 EXCEPT !.runs[r] = Overwrite(@)]
              [] OTHER -> s1

\* the re-dispatch scheduled at the end of the try block only
reschedule_OnlyOnSuccess(s, r) ==
    IF Len(s.queue) > 0 /\ ~s.isShuttingDown /\ s.runs[r].status = COMPLETED
    THEN [s EXCEPT !.immediates = @ + 1]
    ELSE s

\* "Process next task if available"
reschedule(s, r) ==
    IF Len(s.queue) > 0 /\ ~s.isShuttingDown
    THEN [s EXCEPT !.immediates = @ + 1]
    ELSE s

\* processNextTask invoking the callback before "Move to history and cleanup"
continueTask_CallbackFirst(s, r, outcome, beh, t) ==
    LET s1 == settle([s EXCEPT !.active = @ \ {r}], r, outcome, t)
        s2 == invokeCallback(s1, r, beh, t)
        s3 == release(s2, r)
        s4 == [s3 EXCEPT !.termLog = Append(@, r), !.sinceClear = @ + 1]
    IN IF s4.threw THEN s4 ELSE reschedule(s4, r)

\* processNextTask after `await this.task(taskRun.params)` for run r; an
\* exception of the callback rejects the promise of processNextTask, which
\* nobody awaits, and the rest of the function is skipped; t.completedAt is
\* read first, the other readings of t by an enqueue call of the callback
continueTask(s, r, outcome, beh, t) ==
    LET s1 == settle([s EXCEPT !.active = @ \ {r}], r, outcome, t)
        s2 == release(s1, r)
        s3 == [s2 EXCEPT !.termLog = Append(@, r), !.sinceClear = @ + 1]
        s4 == invokeCallback(s3, r, beh, t)
    IN IF s3.spinning THEN s3
       ELSE IF s4.threw THEN s4 ELSE reschedule(s4, r)

\* setOnProcessed keeping a callback that is already installed (??=)
setOnProcessed_KeepFirst(s, cb) ==
    IF s.onProcessed = 0 THEN [s EXCEPT !.onProcessed = cb] ELSE s

\* setOnProcessed
setOnProcessed(s, cb) ==
    [s EXCEPT !.onProcessed = cb,
              !.replaced = @ \/ (s.isProcessing /\ s.onProcessed \notin {0, cb})]

\* clearHistory emptying the queue as well
clearHistory_AlsoQueue(s) ==
    [s EXCEPT !.history = <<>>, !.queue = <<>>, !.sinceClear = 0]

\* clearHistory
clearHistory(s) == [s EXCEPT !.history = <<>>, !.sinceClear = 0]

\* cleanup setting the flag after the polling loop instead of before it
cleanupEnter_FlagAfterLoop(s) ==
    IF s.isProcessing
    THEN [s EXCEPT !.cleanups = @ + 1, !.awaited = s.currentRun]
    ELSE [s EXCEPT !.isShuttingDown = TRUE, !.queue = <<>>, !.resolved = TRUE]

\* cleanup without the polling loop
cleanupEnter_NoLoop(s) ==
    [s EXCEPT !.isShuttingDown = TRUE, !.queue = <<>>, !.resolved = TRUE]

\* cleanup up to its first await: the flag is set; when no run is executing
\* the loop is skipped, the queue is cleared and the call resolves
cleanupEnter(s) ==
    LET s1 == [s EXCEPT !.isShuttingDown = TRUE] IN
    IF s1.isProcessing
    THEN [s1 EXCEPT !.cleanups = @ + 1, !.awaited = s.currentRun]
    ELSE [s1 EXCEPT !.queue = <<>>, !.resolved = TRUE]

\* cleanup re-opening the pool when it resolves
cleanupWake_ResetFlag(s) ==
    IF s.isProcessing
    THEN s
    ELSE [s EXCEPT !.queue = <<>>, !.cleanups = @ - 1, !.resolved = TRUE,
                   !.isShuttingDown = FALSE]

\* cleanup giving up the wait after one sleep (a timeout): it resolves and
\* leaves the queue to the executing run
cleanupWake_Timeout(s) ==
    [s EXCEPT !.cleanups = @ - 1, !.resolved = TRUE]

\* cleanup sleeping once instead of looping while isProcessing
cleanupWake_SleepOnce(s) ==
    [s EXCEPT !.queue = <<>>, !.cleanups = @ - 1, !.resolved = TRUE]

\* cleanup after a sleep of 100 ms: the loop tests isProcessing again and
\* either sleeps again or clears the queue and resolves
cleanupWake(s) ==
    IF s.isProcessing
    THEN s
    ELSE [s EXCEPT !.queue = <<>>, !.cleanups = @ - 1, !.resolved = TRUE]

\* getRunById without the search of the queue
getRunById_SkipQueue(s, runId) ==
    IF s.currentRun # 0 /\ s.runs[s.currentRun].id = runId
    THEN Some(s.runs[s.currentRun])
    ELSE LET h == {i \in 1..Len(s.history) : s.runs[s.history[i]].id = runId}
         IN IF h # {}
            THEN Some(s.runs[s.history[CHOOSE i \in h : \A j \in h : i <= j]])
            ELSE Undefined

\* getRunById: the current run, then the queue, then the history; a copy of
\* the record found, or Undefined
getRunById(s, runId) ==
    IF s.currentRun # 0 /\ s.runs[s.currentRun].id = runId
    THEN Some(s.runs[s.currentRun])
    ELSE LET q == {i \in 1..Len(s.queue) : s.runs[s.queue[i]].id = runId}
             h == {i \in 1..Len(s.history) : s.runs[s.history[i]].id = runId}
         IN IF q # {}
            THEN Some(s.runs[s.queue[CHOOSE i \in q : \A j \in q : i <= j]])
            ELSE IF h # {}
                 THEN Some(s.runs[s.history[CHOOSE i \in h : \A j \in h : i <= j]])
                 ELSE Undefined

\* getHistory(limit?): a new array holding the TaskRun objects of the
\* history themselves (heap indices), most recent first; `limit ?` is false
\* for undefined and for 0
getHistory(s, limit) ==
    LET h == Reverse(s.history)
    IN IF limit # Undefined /\ limit[1] # 0 THEN SliceTo(h, limit[1]) ELSE h

\* getCurrentRun: a copy of the current run, or Undefined
getCurrentRun(s) ==
    IF s.currentRun # 0 THEN Some(s.runs[s.currentRun]) ELSE Undefined

\* getQueueSize counting the executing run as well
getQueueSize_WithCurrent(s) ==
    Len(s.queue) + (IF s.currentRun # 0 THEN 1 ELSE 0)

getQueueSize(s) == Len(s.queue)

RECURSIVE Sum(_)
Sum(q) == IF q = <<>> THEN 0 ELSE Head(q) + Sum(Tail(q))

\* Math.round(a / b) for b > 0: halves are rounded towards +Infinity
RoundedQuotient(a, b) == (2 * a + b) \div (2 * b)

\* the runs of the history with the given status
WithStatus(s, status) ==
    SelectSeq(s.history, LAMBDA i : s.runs[i].status = status)

\* the durations of the runs of the history that have one (`run.duration || 0`
\* is the duration itself)
Durations(s) ==
    LET timed == SelectSeq(s.history, LAMBDA i : s.runs[i].duration # Undefined)
    IN [k \in 1..Len(timed) |-> s.runs[timed[k]].duration[1]]

\* getStats truncating the average (Math.floor) instead of rounding it
getStats_Truncated(s) ==
    LET durations == Durations(s)
        averageDurationMs ==
            IF Len(durations) > 0
            THEN Sum(durations) \div Len(durations)
            ELSE 0
    IN [totalRuns |-> Len(s.history),
        completedRuns |-> Len(WithStatus(s, COMPLETED)),
        failedRuns |-> Len(WithStatus(s, FAILED)),
        currentQueueSize |-> Len(s.queue),
        isRunning |-> s.isProcessing,
        averageDurationMs |-> averageDurationMs]

\* getStats
getStats(s) ==
    LET durations == Durations(s)
        averageDurationMs ==
            IF Len(durations) > 0
            THEN RoundedQuotient(Sum(durations), Len(durations))
            ELSE 0
    IN [totalRuns |-> Len(s.history),
        completedRuns |-> Len(WithStatus(s, COMPLETED)),
        failedRuns |-> Len(WithStatus(s, FAILED)),
        currentQueueSize |-> Len(s.queue),
        isRunning |-> s.isProcessing,
        averageDurationMs |-> averageDurationMs]

isRunning(s) == s.isProcessing

----------------------------------------------------------------------------
(* Initial state: new TaskPool(task, {maxHistorySize}) *)

PoolCreated(sizes) ==
    /\ maxHistorySize \in sizes
    /\ runs = <<>>
    /\ queue = <<>>
    /\ history = <<>>
    /\ currentRun = 0
    /\ isProcessing = FALSE
    /\ isShuttingDown = FALSE
    /\ runCounter = 0
    /\ onProcessed = 0
    /\ active = {}
    /\ immediates = 0
    /\ cleanups = 0
    /\ resolved = FALSE
    /\ now = 0
    /\ ret = [ok |-> TRUE, id |-> "", error |-> ""]
    /\ invoked = <<>>
    /\ termLog = <<>>
    /\ sinceClear = 0
    /\ awaited = 0
    /\ replaced = FALSE
    /\ held = Undefined
    /\ spinning = FALSE

\* new RetryHandler(maxAttempts, baseDelayMs), no execute call made yet
RetryCreated(attempts, baseDelays) ==
    /\ maxAttempts \in attempts
    /\ baseDelayMs \in baseDelays
    /\ retryPc = "idle"
    /\ attempt = 0
    /\ lastError = Undefined
    /\ opCalls = 0
    /\ opOutcomes = <<>>
    /\ delays = <<>>
    /\ consulted = <<>>
    /\ settled = Undefined

\* the states of a breaker in which execute calls the operation
Admissions == {"CLOSED", "OPEN", "HALF_OPEN"}

\* new CircuitBreaker(failureThreshold, resetTimeoutMs), no execute call made
\* yet
BreakerCreated(thresholds, timeouts) ==
    /\ failureThreshold \in thresholds
    /\ resetTimeoutMs \in timeouts
    /\ failures = 0
    /\ lastFailureTime = Undefined
    /\ state = "CLOSED"
    /\ inFlight = [k \in Admissions |-> 0]
    /\ calls = 0
    /\ failedAt = Undefined
    /\ returned = Undefined

Init ==
    /\ PoolCreated(1..MaxHistory)
    /\ RetryCreated({DefaultMaxAttempts}, {DefaultBaseDelayMs})
    /\ BreakerCreated({DefaultFailureThreshold}, {DefaultResetTimeoutMs})

\* the maxHistorySize options the constructor accepts without validation:
\* negative, zero and positive integers
HistorySizes == (-1)..MaxHistory

AnySizeInit ==
    /\ PoolCreated(HistorySizes)
    /\ RetryCreated({DefaultMaxAttempts}, {DefaultBaseDelayMs})
    /\ BreakerCreated({DefaultFailureThreshold}, {DefaultResetTimeoutMs})

RetryInit ==
    /\ PoolCreated({DefaultMaxHistorySize})
    /\ RetryCreated(0..MaxAttempts, BaseDelays)
    /\ BreakerCreated({DefaultFailureThreshold}, {DefaultResetTimeoutMs})

BreakerInit ==
    /\ PoolCreated({DefaultMaxHistorySize})
    /\ RetryCreated({DefaultMaxAttempts}, {DefaultBaseDelayMs})
    /\ BreakerCreated(1..MaxThreshold, 1..MaxElapsed)

----------------------------------------------------------------------------
(* Actions: one slice of the event loop each *)

\* a caller calls enqueue(params), the clock reading t at the reads of the
\* slice and being left at the last of them
EnqueueAt(t) ==
    /\ Len(runs) < MaxRuns \/ isShuttingDown
    /\ Commit(enqueue(Pool, NextParams(Pool), t))
    /\ now' = t.startedAt

\* a caller calls enqueue(params) and the clock does not move during the
\* slice
Enqueue == EnqueueAt(Still(now))

\* a caller calls enqueue(params) and the clock advances between the reads
EnqueueTimed == \E t \in Readings(now) : EnqueueAt(t)

\* the work function of run r settles and processNextTask continues, the
\* clock reading t at the reads of the slice
SettleAt(r, outcome, beh, t) ==
    /\ r \in active
    /\ Commit(continueTask(Pool, r, outcome, beh, t))
    /\ now' = t.startedAt

\* the work function of run r settles and the clock does not move during the
\* continuation
Settle(r, outcome, beh) == SettleAt(r, outcome, beh, Still(now))

\* the work function of a run settles and the clock advances between the
\* reads of the continuation
TaskSettlesTimed ==
    \E r \in active, outcome \in Outcomes, beh \in CallbackBehaviours,
       t \in Readings(now) :
        SettleAt(r, outcome, beh, t)

TaskSettles ==
    \E r \in active, outcome \in Outcomes, beh \in CallbackBehaviours :
        Settle(r, outcome, beh)

\* the work function of a run resolves with undefined
TaskSettlesUndefined ==
    \E r \in active, outcome \in VoidOutcomes, beh \in CallbackBehaviours :
        Settle(r, outcome, beh)

\* the work function of a run settles and the callback overwrites the status
\* of the record it is given
TaskSettlesTampered ==
    \E r \in active, outcome \in Outcomes, beh \in TamperingBehaviours :
        Settle(r, outcome, beh)

\* a caller overwrites the status of the k-th record of getHistory(): the
\* record is the TaskRun object of the pool
TamperHistory ==
    \E k \in 1..Len(history) :
        LET taskRun == getHistory(Pool, Undefined)[k] IN
        /\ Commit([Pool EXCEPT !.runs[taskRun] = Overwrite(@),
                               !.held = Some(Overwrite(runs[taskRun]))])
        /\ UNCHANGED now

\* a caller overwrites the status of the record getRunById returned: the
\* record is a copy
TamperRunById ==
    \E i \in 1..Len(runs) :
        LET taskRun == getRunById(Pool, runs[i].id) IN
        /\ taskRun # Undefined
        /\ Commit([Pool EXCEPT !.held = Some(Overwrite(taskRun[1]))])
        /\ UNCHANGED now

\* a caller overwrites the status of the record getCurrentRun returned: the
\* record is a copy
TamperCurrentRun ==
    LET taskRun == getCurrentRun(Pool) IN
    /\ taskRun # Undefined
    /\ Commit([Pool EXCEPT !.held = Some(Overwrite(taskRun[1]))])
    /\ UNCHANGED now

\* a setImmediate callback runs processNextTask
Immediate ==
    /\ immediates > 0
    /\ Commit(processNextTask([Pool EXCEPT !.immediates = @ - 1], Still(now)))
    /\ UNCHANGED now

\* a caller calls setOnProcessed(callback)
SetOnProcessedTo(cb) ==
    /\ Commit(setOnProcessed(Pool, cb))
    /\ UNCHANGED now

SetOnProcessed == \E cb \in Callbacks : SetOnProcessedTo(cb)

\* a caller calls clearHistory()
ClearHistory ==
    /\ Commit(clearHistory(Pool))
    /\ UNCHANGED now

\* a caller calls cleanup()
Cleanup ==
    /\ isProcessing => cleanups < MaxCleanups
    /\ Commit(cleanupEnter(Pool))
    /\ UNCHANGED now

\* the timer of a sleeping cleanup() fires
CleanupPoll ==
    /\ cleanups > 0
    /\ Commit(cleanupWake(Pool))
    /\ UNCHANGED now

\* the clock advances
Tick ==
    /\ now < MaxTime
    /\ now' = now + 1
    /\ Commit(Pool)

\* the system clock is set back: new Date() and Date.now() read the wall
\* clock, which is not monotonic
ClockSetBack ==
    /\ now > 0
    /\ now' = now - 1
    /\ Commit(Pool)

\* The pool never reads back a timestamp it stored and no branch of it
\* depends on the clock, so the slices of the pool are explored with the clock
\* standing still (Spec) and, for what is said about timestamps and
\* durations, with the clock advancing between the slices and between the
\* reads of a slice (TimedSpec).
Next ==
    \/ Enqueue
    \/ TaskSettles
    \/ Immediate
    \/ SetOnProcessed
    \/ ClearHistory
    \/ Cleanup
    \/ CleanupPoll

TimedNext ==
    \/ Next
    \/ Tick
    \/ EnqueueTimed
    \/ TaskSettlesTimed

\* The pool never reads the result it stored either: what is said about the
\* results is explored with a work function that may also resolve with
\* undefined (AnyResultSpec).
AnyResultNext == Next \/ TaskSettlesUndefined

Spec == Init /\ [][Next]_vars

TimedSpec == Init /\ [][TimedNext]_vars

\* the slices that write timestamps, on a wall clock that is adjusted while
\* the pool is in use
WallClockNext ==
    \/ Enqueue
    \/ TaskSettles
    \/ Immediate
    \/ Tick
    \/ ClockSetBack

WallClockSpec == Init /\ [][WallClockNext]_vars

\* the pool constructed with any maxHistorySize
AnySizeSpec == AnySizeInit /\ [][Next]_vars

AnyResultSpec == Init /\ [][AnyResultNext]_vars

\* every invocation of the work function settles, and the event loop runs the
\* setImmediate callbacks
ProgressSpec == Spec /\ WF_vars(TaskSettles) /\ WF_vars(Immediate)

\* the pool with callers and callbacks that write to the records they are
\* given
TamperNext ==
    \/ Next
    \/ TaskSettlesTampered
    \/ TamperHistory
    \/ TamperRunById
    \/ TamperCurrentRun

TamperSpec == Init /\ [][TamperNext]_vars

\* the timers of the sleeping cleanup() calls fire
FairSpec == Spec /\ WF_vars(CleanupPoll)

----------------------------------------------------------------------------
(* RetryHandler *)

\* the handler and its execute call at the start of a slice
Retry ==
    [maxAttempts |-> maxAttempts, baseDelayMs |-> baseDelayMs,
     retryPc |-> retryPc, attempt |-> attempt, lastError |-> lastError,
     opCalls |-> opCalls, opOutcomes |-> opOutcomes, delays |-> delays,
     consulted |-> consulted, settled |-> settled]

\* the state at the end of a slice of the execute call
RetryCommit(h) ==
    /\ maxAttempts' = h.maxAttempts
    /\ baseDelayMs' = h.baseDelayMs
    /\ retryPc' = h.retryPc
    /\ attempt' = h.attempt
    /\ lastError' = h.lastError
    /\ opCalls' = h.opCalls
    /\ opOutcomes' = h.opOutcomes
    /\ delays' = h.delays
    /\ consulted' = h.consulted
    /\ settled' = h.settled
    /\ UNCHANGED poolVars
    /\ UNCHANGED breakerVars

\* what the n-th invocation of the operation resolves with
OperationResult(n) == "result-" \o ToString(n)

\* what the n-th invocation of the operation rejects with: an Error, or a
\* string
OperationThrown(outcome, n) ==
    IF outcome = "rejectError"
    THEN [isError |-> TRUE, message |-> "failure-" \o ToString(n)]
    ELSE [isError |-> FALSE, value |-> "failure-" \o ToString(n)]

\* the exponent being attempt instead of attempt - 1
backoff_FromAttempt(base, n) == base * 2 ^ n

\* this.baseDelayMs * 2 ** (attempt - 1)
backoff(base, n) == base * 2 ^ (n - 1)

\* the loop making one attempt less (attempt < this.maxAttempts)
retryAttempt_OneLess(h) ==
    IF h.attempt < h.maxAttempts
    THEN [h EXCEPT !.retryPc = "operation", !.opCalls = @ + 1]
    ELSE [h EXCEPT !.retryPc = "rejected",
                   !.settled = Some([ok |-> FALSE, error |-> Undefined])]

\* the head of the for loop and the call of the operation; when the loop is
\* over, `return Promise.reject()` rejects with undefined
retryAttempt(h) ==
    IF h.attempt <= h.maxAttempts
    THEN [h EXCEPT !.retryPc = "operation", !.opCalls = @ + 1]
    ELSE [h EXCEPT !.retryPc = "rejected",
                   !.settled = Some([ok |-> FALSE, error |-> Undefined])]

\* execute up to its first await
retryExecute(h) == retryAttempt([h EXCEPT !.attempt = 1])

\* the catch block retrying whatever shouldRetry answers
retryCatch_IgnoreAnswer(h, outcome, answer) ==
    LET error == NormalizeError(OperationThrown(outcome, h.opCalls))
        h1 == [h EXCEPT !.lastError = Some(error)]
    IN IF h.attempt = h.maxAttempts
       THEN [h1 EXCEPT !.retryPc = "rejected",
                       !.settled = Some([ok |-> FALSE, error |-> Some(error)])]
       ELSE [h1 EXCEPT !.consulted =
                           Append(@, [error |-> error, answer |-> answer]),
                       !.retryPc = "delay",
                       !.delays = Append(@, backoff(h.baseDelayMs, h.attempt))]

\* the catch block: the error is normalized; on the last attempt it is
\* thrown without shouldRetry being called, otherwise shouldRetry decides
\* between throwing it and `await this.delay(delayMs)`
retryCatch(h, outcome, answer) ==
    LET error == NormalizeError(OperationThrown(outcome, h.opCalls))
        h1 == [h EXCEPT !.lastError = Some(error)]
    IN IF h.attempt = h.maxAttempts
       THEN [h1 EXCEPT !.retryPc = "rejected",
                       !.settled = Some([ok |-> FALSE, error |-> Some(error)])]
       ELSE LET h2 == [h1 EXCEPT !.consulted =
                           Append(@, [error |-> error, answer |-> answer])]
            IN IF ~answer
               THEN [h2 EXCEPT !.retryPc = "rejected",
                               !.settled = Some([ok |-> FALSE,
                                                 error |-> Some(error)])]
               ELSE [h2 EXCEPT !.retryPc = "delay",
                               !.delays =
                                   Append(@, backoff(h.baseDelayMs, h.attempt))]

\* execute after `await operation()`: the result is returned, or the catch
\* block runs
retrySettle(h, outcome, answer) ==
    LET h1 == [h EXCEPT !.opOutcomes = Append(@, outcome)]
    IN IF outcome = "resolve"
       THEN [h1 EXCEPT !.retryPc = "resolved",
                       !.settled = Some([ok |-> TRUE,
                                         value |-> OperationResult(h.opCalls)])]
       ELSE retryCatch(h1, outcome, answer)

\* execute after `await this.delay(delayMs)`: attempt++ and the loop again
retryResume(h) == retryAttempt([h EXCEPT !.attempt = @ + 1])

\* a caller calls execute(operation, shouldRetry)
RetryExecute ==
    /\ retryPc = "idle"
    /\ RetryCommit(retryExecute(Retry))

\* the operation settles; answer is what shouldRetry returns if it is called
OperationSettlesAs(outcome, answer) ==
    /\ retryPc = "operation"
    /\ RetryCommit(retrySettle(Retry, outcome, answer))

OperationSettles ==
    \E outcome \in Outcomes, answer \in BOOLEAN :
        OperationSettlesAs(outcome, answer)

\* the timer of delay(ms) fires
DelayElapses ==
    /\ retryPc = "delay"
    /\ RetryCommit(retryResume(Retry))

RetryNext ==
    \/ RetryExecute
    \/ OperationSettles
    \/ DelayElapses

RetrySpec == RetryInit /\ [][RetryNext]_vars

----------------------------------------------------------------------------
(* CircuitBreaker *)

\* the breaker at the start of a slice
Breaker ==
    [failureThreshold |-> failureThreshold, resetTimeoutMs |-> resetTimeoutMs,
     failures |-> failures, lastFailureTime |-> lastFailureTime,
     state |-> state, inFlight |-> inFlight, calls |-> calls,
     failedAt |-> failedAt, returned |-> Undefined]

\* the state at the end of a slice of an execute call
BreakerCommit(b) ==
    /\ failureThreshold' = b.failureThreshold
    /\ resetTimeoutMs' = b.resetTimeoutMs
    /\ failures' = b.failures
    /\ lastFailureTime' = b.lastFailureTime
    /\ state' = b.state
    /\ inFlight' = b.inFlight
    /\ calls' = b.calls
    /\ failedAt' = b.failedAt
    /\ returned' = b.returned
    /\ UNCHANGED <<maxHistorySize, runs, queue, history, currentRun,
                   isProcessing, isShuttingDown, runCounter, onProcessed,
                   active, immediates, cleanups, resolved, ret, invoked,
                   termLog, sinceClear, awaited, replaced, held, spinning>>
    /\ UNCHANGED retryVars

\* the operationName argument of the calls
OperationName == "testOperation"

\* what the operation resolves with
BreakerResult == "success"

\* the error execute throws without calling the operation
OpenError == [isError |-> TRUE,
              message |-> "Circuit breaker is open for " \o OperationName]

\* shouldAttemptReset ignoring the time elapsed
shouldAttemptReset_NoTimeout(b, t) == b.lastFailureTime # Undefined

\* shouldAttemptReset at instant t of Date.now()
shouldAttemptReset(b, t) ==
    /\ b.lastFailureTime # Undefined
    /\ t - b.lastFailureTime[1] >= b.resetTimeoutMs

onSuccess(b) ==
    LET b1 == [b EXCEPT !.failures = 0, !.lastFailureTime = Undefined]
    IN IF b1.state = "HALF_OPEN" THEN [b1 EXCEPT !.state = "CLOSED"] ELSE b1

\* onFailure opening only above the threshold (failures > failureThreshold)
onFailure_Above(b, t) ==
    LET b1 == [b EXCEPT !.failures = @ + 1, !.lastFailureTime = Some(t)]
    IN IF b1.failures > b1.failureThreshold
       THEN [b1 EXCEPT !.state = "OPEN"]
       ELSE b1

\* onFailure at instant t of Date.now()
onFailure(b, t) ==
    LET b1 == [b EXCEPT !.failures = @ + 1, !.lastFailureTime = Some(t)]
    IN IF b1.failures >= b1.failureThreshold
       THEN [b1 EXCEPT !.state = "OPEN"]
       ELSE b1

\* execute up to its first await: the call is refused, or the operation is
\* called, also when the breaker is already HALF_OPEN
breakerExecute(b, t) ==
    LET b1 == [b EXCEPT !.calls = @ + 1]
    IN IF b.state = "OPEN"
       THEN IF shouldAttemptReset(b, t)
            THEN [b1 EXCEPT !.state = "HALF_OPEN", !.inFlight["OPEN"] = @ + 1]
            ELSE [b1 EXCEPT !.returned =
                                Some([ok |-> FALSE, error |-> OpenError])]
       ELSE [b1 EXCEPT !.inFlight[b.state] = @ + 1]

\* execute after `await operation()` of a call made when the breaker was in
\* state k: onSuccess and the result, or onFailure and the error as thrown
breakerSettle(b, k, outcome, t) ==
    LET b1 == [b EXCEPT !.inFlight[k] = @ - 1]
    IN IF outcome = "resolve"
       THEN [onSuccess(b1) EXCEPT
                !.returned = Some([ok |-> TRUE, value |-> BreakerResult])]
       ELSE [onFailure(b1, t) EXCEPT
                !.failedAt = Some(t),
                !.returned = Some([ok |-> FALSE, error |-> Thrown(outcome)])]

\* no operation is awaited
NoneInFlight == \A k \in Admissions : inFlight[k] = 0

\* a caller calls execute(operation, operationName)
BreakerExecute ==
    /\ calls < MaxCalls
    /\ BreakerCommit(breakerExecute(Breaker, now))
    /\ UNCHANGED now

\* a caller that awaits each call before it makes the next one
SequentialExecute ==
    /\ NoneInFlight
    /\ BreakerExecute

\* the operation of a call made in state k settles
BreakerSettles(k, outcome) ==
    /\ inFlight[k] > 0
    /\ BreakerCommit(breakerSettle(Breaker, k, outcome, now))
    /\ UNCHANGED now

BreakerOperationSettles ==
    \E k \in Admissions, outcome \in Outcomes : BreakerSettles(k, outcome)

\* the clock advances
BreakerTick ==
    /\ now < MaxElapsed
    /\ now' = now + 1
    /\ BreakerCommit(Breaker)

BreakerNext ==
    \/ BreakerExecute
    \/ BreakerOperationSettles
    \/ BreakerTick

SequentialNext ==
    \/ SequentialExecute
    \/ BreakerOperationSettles
    \/ BreakerTick

\* execute calls made at any time, also while earlier ones are in flight
BreakerSpec == BreakerInit /\ [][BreakerNext]_vars

\* execute calls made one after the other
SequentialSpec == BreakerInit /\ [][SequentialNext]_vars

----------------------------------------------------------------------------
(* Properties *)

RunIds == 1..Len(runs)

StrictlyIncreasing(q) == \A i, j \in 1..Len(q) : i < j => q[i] < q[j]

\* C1: at most one invocation of the work function is in flight and at most
\* one run has status RUNNING, in every reachable state.
MutualExclusion ==
    /\ Cardinality(active) <= 1
    /\ Cardinality({i \in RunIds : runs[i].status = RUNNING}) <= 1

\* a run is executing, another one is queued and a deferred re-dispatch is
\* still pending
MutualExclusionWitness ==
    /\ Cardinality(active) = 1
    /\ Len(queue) > 0
    /\ immediates > 0

\* C2: runs start and terminate in the order of their enqueue calls (the heap
\* index of a run is its position in that order), and the history read in
\* chronological order is an order-preserving subsequence of it.
FifoOrder ==
    /\ \A i, j \in RunIds :
          i < j => /\ runs[j].status # PENDING => runs[i].status # PENDING
                   /\ runs[j].status \in Terminal => runs[i].status \in Terminal
    /\ StrictlyIncreasing(termLog)
    /\ StrictlyIncreasing(history)
    /\ StrictlyIncreasing(queue)

\* the second run was dispatched by the enqueue call of the third one, made
\* between the completion of the first run and the deferred re-dispatch
FifoOrderWitness ==
    /\ termLog = <<1>>
    /\ currentRun = 2
    /\ queue = <<3>>
    /\ immediates > 0

\* cleanup() has been called: it sleeps in its loop or it has resolved
CleanupCalled == cleanups > 0 \/ resolved

\* C3: when the work function rejects and the callback (if any) returns, the
\* run ends FAILED with the error recorded and no result, it is the newest
\* entry of the history, the promise of the caller's enqueue is untouched, and
\* the re-dispatch of the next queued run is scheduled as after a success.
FailureContained ==
    [][\A r \in RunIds, outcome \in {"rejectError", "rejectValue"},
          beh \in {"return", "enqueue"} :
          Settle(r, outcome, beh) =>
            /\ runs'[r].status = FAILED
            /\ runs'[r].error = Some([isError |-> TRUE, message |-> "boom"])
            /\ runs'[r].result = Undefined
            /\ history'[Len(history')] = r
            /\ ret' = ret
            /\ r \notin active'
            /\ (Len(queue') > 0 /\ ~isShuttingDown) => immediates' = immediates + 1
            /\ \A i \in RunIds \ {r} : runs'[i].status \in {runs[i].status, RUNNING}
      ]_vars

\* the run queued behind a failed run has been executed and has completed
FailureContainedWitness ==
    /\ Len(runs) >= 2
    /\ runs[1].status = FAILED
    /\ runs[2].status = COMPLETED
    /\ runs[2].result = Some(4)

\* C4: once cleanup() has been called, also while it is still sleeping, an
\* enqueue call fails with the shutdown error and changes nothing of the pool.
EnqueueAfterShutdown ==
    [][(CleanupCalled /\ Enqueue) =>
          /\ ~ret'.ok
          /\ ret'.error = ShutdownError
          /\ UNCHANGED <<runs, queue, history, currentRun, isProcessing,
                         isShuttingDown, runCounter, onProcessed, active,
                         immediates>>
      ]_vars

\* an enqueue call was rejected while cleanup() is still waiting for the run
\* that is executing, with a run left in the queue
EnqueueAfterShutdownWitness ==
    /\ cleanups > 0
    /\ isProcessing
    /\ Len(queue) > 0
    /\ ~ret.ok

\* C5: in every state after a cleanup() call has resolved the queue is empty,
\* no run is executing and enqueue fails with the shutdown error.
PostCleanup ==
    resolved =>
        /\ getQueueSize(Pool) = 0
        /\ ~isRunning(Pool)
        /\ LET s == enqueue(Pool, NextParams(Pool), Still(now))
           IN ~s.ret.ok /\ s.ret.error = ShutdownError /\ s.queue = <<>>

\* cleanup() has resolved after a run terminated, while a re-dispatch
\* scheduled before the call is still pending
PostCleanupWitness ==
    /\ resolved
    /\ immediates > 0
    /\ Len(termLog) > 0

\* C6: from the call of cleanup() on no PENDING run is dispatched, enters the
\* history or is passed to the callback, no run is created, and once cleanup()
\* has resolved getRunById finds none of the runs that were discarded.
CleanupDiscards ==
    /\ [][CleanupCalled =>
            /\ Len(runs') = Len(runs)
            /\ \A i \in RunIds :
                 runs[i].status = PENDING =>
                   /\ runs'[i] = runs[i]
                   /\ i \notin SeqToSet(history') \cup {currentRun'} \cup active'
                   /\ \A k \in 1..Len(invoked') : invoked'[k].run # i
         ]_vars
    /\ [](resolved =>
            \A i \in RunIds :
               runs[i].status = PENDING => getRunById(Pool, runs[i].id) = Undefined)

\* cleanup() has resolved and discarded a PENDING run whose re-dispatch had
\* been scheduled before the call and is still to run
CleanupDiscardsWitness ==
    /\ resolved
    /\ \E i \in RunIds :
          runs[i].status = PENDING /\ getRunById(Pool, runs[i].id) = Undefined
    /\ immediates > 0

\* a cleanup() call resolves in this step
CleanupResolves == (resolved' /\ ~resolved) \/ cleanups' < cleanups

\* C7 as claimed: when a cleanup() call that waited for a run resolves, that
\* run is terminal and getRunById finds it.
CleanupFindsAwaitedRun ==
    [][cleanups' < cleanups =>
          /\ runs'[awaited].status \in Terminal
          /\ getRunById(Pool', runs'[awaited].id) # Undefined
      ]_vars

\* C7, amended: cleanup() never resolves while a run is executing; once the
\* run it waits for has settled it resolves eventually; when it resolves that
\* run is terminal, and getRunById finds it in the history unless
\* clearHistory() was called after it terminated.
CleanupWaits ==
    /\ [][CleanupResolves =>
            /\ ~isProcessing'
            /\ currentRun' = 0
            /\ active' = {}
            /\ \A i \in RunIds : runs'[i].status # RUNNING
         ]_vars
    /\ [][cleanups' < cleanups =>
            /\ runs'[awaited].status \in Terminal
            /\ sinceClear' > 0 =>
                 /\ getRunById(Pool', runs'[awaited].id) = Some(runs'[awaited])
                 /\ history'[Len(history')] = awaited
         ]_vars
    /\ (cleanups > 0 /\ awaited \notin active) ~> (cleanups = 0 /\ resolved)

\* a cleanup() call that waited for the first run has resolved, and the run
\* is COMPLETED and in the history
CleanupWaitsWitness ==
    /\ resolved
    /\ cleanups = 0
    /\ awaited = 1
    /\ runs[1].status = COMPLETED
    /\ 1 \in SeqToSet(history)

\* the last n elements of q
LastN(q, n) == SubSeq(q, Len(q) - n + 1, Len(q))

\* C8: the history never holds more than maxHistorySize runs, and after k
\* runs have terminated since the last clearHistory() it holds exactly the
\* min(k, maxHistorySize) runs that terminated last, oldest first.
BoundedHistory ==
    /\ Len(history) <= maxHistorySize
    /\ sinceClear <= Len(termLog)
    /\ history = LastN(termLog, Min(sinceClear, maxHistorySize))

\* a run was evicted from a history that had been cleared before
BoundedHistoryWitness ==
    /\ sinceClear > maxHistorySize
    /\ Len(termLog) > sinceClear
    /\ Len(history) = maxHistorySize

\* a run reaches a terminal state in this step
RunTerminates == Len(termLog') > Len(termLog)

\* C9: a step in which a run terminates while a callback is installed invokes
\* the callback exactly once, for that run, with the run terminal and in the
\* history and with the current-run slot and the running flag cleared; no
\* other step invokes it, and every run terminates at most once.
ProcessedCallback ==
    /\ [][/\ Len(termLog') <= Len(termLog) + 1
          /\ (RunTerminates /\ onProcessed # 0) =>
                /\ Len(invoked') = 1
                /\ invoked'[1].run = termLog'[Len(termLog')]
                /\ invoked'[1].status \in Terminal
                /\ invoked'[1].status = runs'[invoked'[1].run].status
                /\ invoked'[1].inHistory
                /\ ~invoked'[1].isProcessing
                /\ invoked'[1].currentRun = 0
          /\ (RunTerminates /\ onProcessed = 0) => invoked' = <<>>
          /\ ~RunTerminates => invoked' = <<>>
         ]_vars
    /\ [](\A i, j \in 1..Len(termLog) : i # j => termLog[i] # termLog[j])

\* the callback has just been invoked for the second run, which failed
ProcessedCallbackWitness ==
    /\ Len(invoked) = 1
    /\ invoked[1].run = 2
    /\ invoked[1].status = FAILED
    /\ termLog = <<1, 2>>

\* C10: setOnProcessed(cb) puts cb in the slot whatever was installed, and a
\* run that terminates notifies the callback in the slot at that moment and
\* no other, also when the slot was overwritten while the run was executing.
CallbackReplacement ==
    /\ [][\A cb \in Callbacks : SetOnProcessedTo(cb) => onProcessed' = cb]_vars
    /\ [][RunTerminates =>
            /\ onProcessed' = onProcessed
            /\ \A k \in 1..Len(invoked') : invoked'[k].cb = onProcessed
         ]_vars

\* a run that started under callback 1 has notified callback 2, installed
\* while the run was executing
CallbackReplacementWitness ==
    /\ Len(invoked) = 1
    /\ invoked[1].replaced
    /\ invoked[1].cb = 2

Populated(field) == field # Undefined

\* C11: every terminal run has exactly one of result and error populated, the
\* result when COMPLETED and the error when FAILED, whatever the work
\* function settled with; never both and never neither.
ExactlyOneOfResultAndError ==
    \A i \in RunIds :
        /\ runs[i].status = COMPLETED =>
              Populated(runs[i].result) /\ ~Populated(runs[i].error)
        /\ runs[i].status = FAILED =>
              Populated(runs[i].error) /\ ~Populated(runs[i].result)

\* what the try/catch does guarantee: a FAILED run has an error (an Error
\* object) and no result; a COMPLETED run has no error and a result among the
\* values the work function resolves with, undefined included; no run has
\* both, and a run that is not terminal has neither.
TerminalResultOrError ==
    \A i \in RunIds :
        /\ runs[i].status = FAILED =>
              /\ Populated(runs[i].error)
              /\ runs[i].error[1].isError
              /\ ~Populated(runs[i].result)
        /\ runs[i].status = COMPLETED =>
              /\ ~Populated(runs[i].error)
              /\ runs[i].result \in
                    {Resolved(outcome, runs[i].params) : outcome \in Resolutions}
        /\ runs[i].status \notin Terminal =>
              ~Populated(runs[i].error) /\ ~Populated(runs[i].result)
        /\ ~(Populated(runs[i].result) /\ Populated(runs[i].error))

\* the history holds a run that failed, a run that completed with a value
\* and a run that completed with undefined
TerminalResultOrErrorWitness ==
    /\ \E i \in SeqToSet(history) : runs[i].status = FAILED
    /\ \E i \in SeqToSet(history) :
          runs[i].status = COMPLETED /\ Populated(runs[i].result)
    /\ \E i \in RunIds :
          runs[i].status = COMPLETED /\ ~Populated(runs[i].result)

\* the status changes of the TaskRun lifecycle
Lifecycle ==
    {<<PENDING, RUNNING>>, <<RUNNING, COMPLETED>>, <<RUNNING, FAILED>>}

\* C12: in every step every run keeps its status or moves along
\* PENDING -> RUNNING, RUNNING -> COMPLETED or RUNNING -> FAILED; a run
\* created in the step is PENDING or, when the enqueue call that created it
\* dispatched it at once, RUNNING; no run disappears.
RunLifecycle ==
    [][/\ Len(runs') >= Len(runs)
       /\ \A i \in RunIds :
             \/ runs'[i].status = runs[i].status
             \/ <<runs[i].status, runs'[i].status>> \in Lifecycle
       /\ \A i \in 1..Len(runs') \ RunIds :
             runs'[i].status \in {PENDING, RUNNING}
      ]_vars

\* a run has failed, the next one is executing and a third one is pending
RunLifecycleWitness ==
    /\ Len(runs) = 3
    /\ runs[1].status = FAILED
    /\ runs[2].status = RUNNING
    /\ runs[3].status = PENDING

\* C13: the identifiers of all the runs ever created differ, also when they
\* were created at the same instant; the run counter equals the number of
\* successful enqueue calls, so that it grows by one with each of them and no
\* other call (clearHistory, cleanup, a rejected enqueue) changes it; a
\* successful enqueue returns the identifier of the run it created.
UniqueRunIds ==
    /\ [](\A i, j \in RunIds : i # j => runs[i].id # runs[j].id)
    /\ [](runCounter = Len(runs))
    /\ [][/\ Len(runs') \in {Len(runs), Len(runs) + 1}
          /\ runCounter' = runCounter + (Len(runs') - Len(runs))
          /\ (Enqueue /\ ret'.ok) =>
                /\ Len(runs') = Len(runs) + 1
                /\ ret'.id = runs'[Len(runs')].id
                /\ \A i \in RunIds : runs[i].id # ret'.id
          /\ (Enqueue /\ ~ret'.ok) => Len(runs') = Len(runs)
         ]_vars

\* three runs were created at the same instant, the history was cleared
\* after a run had terminated and cleanup() has resolved
UniqueRunIdsWitness ==
    /\ runCounter = 3
    /\ \A i \in RunIds : runs[i].queuedAt = runs[1].queuedAt
    /\ Len(termLog) > 0
    /\ history = <<>>
    /\ resolved

\* what the pool reports of its runs: the records of getHistory(), the
\* record getRunById returns for every identifier issued, and getStats()
Reported(s) ==
    [history |-> LET h == getHistory(s, Undefined)
                 IN [k \in 1..Len(h) |-> s.runs[h[k]]],
     byId |-> [i \in 1..Len(s.runs) |-> getRunById(s, s.runs[i].id)],
     stats |-> getStats(s)]

\* C14: a caller overwriting the status of a record returned by getHistory,
\* getRunById or getCurrentRun leaves unchanged what getHistory, getRunById
\* and getStats report.
AccessorIsolation ==
    [][(TamperHistory \/ TamperRunById \/ TamperCurrentRun) =>
          Reported(Pool)' = Reported(Pool)
      ]_vars

\* C15: when the callback overwrites the status of its argument, the record
\* of the finished run in the history is as the pool wrote it.
CallbackIsolation ==
    [][\A r \in active, outcome \in Outcomes :
          Settle(r, outcome, "tamper") =>
              runs'[r] = settle(Pool, r, outcome, Still(now)).runs[r]
      ]_vars

\* C16: a step that terminates a run and leaves a non-empty queue, without
\* shutdown, leaves the next run executing or its dispatch scheduled; and if
\* cleanup() is never called, every run created eventually is terminal and
\* has been added to the history.
Progress ==
    /\ [][(RunTerminates /\ Len(queue') > 0 /\ ~isShuttingDown') =>
            (isProcessing' \/ immediates' > 0)
         ]_vars
    /\ \A i \in 1..MaxRuns :
          ([]~isShuttingDown) =>
              ((i \in RunIds) ~>
                  (/\ i \in RunIds
                   /\ runs[i].status \in Terminal
                   /\ i \in SeqToSet(termLog)))

\* the limits a caller passes to getHistory: 0, and values up to more than
\* the history can hold
Limits == 0..(MaxRuns + 1)

\* C17: for every limit, getHistory(limit) is the first min(limit, length)
\* records of getHistory(), and getHistory() lists the history most recent
\* first.
HistoryLimit ==
    \A limit \in Limits :
        LET all == getHistory(Pool, Undefined)
        IN /\ getHistory(Pool, Some(limit)) = SubSeq(all, 1, Min(limit, Len(all)))
           /\ all = Reverse(history)
           /\ \A i, j \in 1..Len(all) : i < j => all[i] > all[j]

\* C18: getStats() agrees with the other accessors: totalRuns is the length
\* of getHistory(), completedRuns and failedRuns are the numbers of its
\* COMPLETED and FAILED records, currentQueueSize is getQueueSize(), isRunning
\* is isRunning(), and averageDurationMs is 0 for an empty history and
\* otherwise the integer nearest to the mean of the durations of its records
\* (a half is rounded up): mean - 1/2 < averageDurationMs <= mean + 1/2.
StatsAgree ==
    LET stats == getStats(Pool)
        h == getHistory(Pool, Undefined)
        n == Len(h)
        total == Sum([k \in 1..n |-> runs[h[k]].completedAt[1] - runs[h[k]].startedAt[1]])
        avg == stats.averageDurationMs
    IN /\ stats.totalRuns = n
       /\ stats.completedRuns = Cardinality({k \in 1..n : runs[h[k]].status = COMPLETED})
       /\ stats.failedRuns = Cardinality({k \in 1..n : runs[h[k]].status = FAILED})
       /\ stats.currentQueueSize = getQueueSize(Pool)
       /\ stats.isRunning = isRunning(Pool)
       /\ \A k \in 1..n :
             runs[h[k]].duration = Some(runs[h[k]].completedAt[1] - runs[h[k]].startedAt[1])
       /\ n = 0 => avg = 0
       /\ n > 0 => (2 * avg * n - n <= 2 * total) /\ (2 * total < 2 * avg * n + n)

\* the history holds a completed run and a failed run whose durations are
\* 0 ms and 1 ms: their mean of 0.5 is reported as 1, with a run still queued
StatsAgreeWitness ==
    /\ getStats(Pool).totalRuns = 2
    /\ getStats(Pool).completedRuns = 1
    /\ getStats(Pool).failedRuns = 1
    /\ Sum(Durations(Pool)) = 1
    /\ getStats(Pool).averageDurationMs = 1
    /\ getStats(Pool).currentQueueSize = 1

\* identifiers the pool has not issued: the empty string, an identifier with
\* counter 0, and the identifier the next enqueue call would create
UnissuedIds == {"", "run-0-0", generateRunId(Pool, Still(now))}

\* C19: for every run that is in the queue, executing or in the history,
\* getRunById of its identifier returns the record of that run, with that
\* identifier and with status PENDING in the queue, RUNNING when executing and
\* COMPLETED or FAILED in the history; for an identifier that was not issued
\* it returns undefined.
RunByIdFinds ==
    /\ \A i \in RunIds :
          LET got == getRunById(Pool, runs[i].id) IN
          /\ i \in SeqToSet(queue) =>
                got # Undefined /\ got[1].id = runs[i].id /\ got[1].status = PENDING
          /\ i = currentRun =>
                got # Undefined /\ got[1].id = runs[i].id /\ got[1].status = RUNNING
          /\ i \in SeqToSet(history) =>
                /\ got # Undefined
                /\ got[1].id = runs[i].id
                /\ got[1].status \in Terminal
                /\ got[1].status = runs[i].status
          /\ got # Undefined => got[1] = runs[i]
    /\ \A id \in UnissuedIds : getRunById(Pool, id) = Undefined

\* getRunById finds a completed run in the history, the run that is
\* executing and a run that is pending in the queue
RunByIdFindsWitness ==
    /\ Len(runs) = 3
    /\ getRunById(Pool, runs[1].id) = Some(runs[1])
    /\ runs[1].status = COMPLETED
    /\ 1 \in SeqToSet(history)
    /\ getRunById(Pool, runs[2].id) = Some(runs[2])
    /\ currentRun = 2
    /\ getRunById(Pool, runs[3].id) = Some(runs[3])
    /\ queue = <<3>>

\* C20: a clearHistory() call empties the history and changes neither the
\* queue, the current run, the running flag, the shutdown flag, the run
\* counter nor any TaskRun record; and every run that terminates, also after
\* a clearHistory() call made while it was executing, becomes the newest
\* record of the history.
ClearHistoryFrame ==
    /\ [][ClearHistory =>
            /\ history' = <<>>
            /\ getStats(Pool').totalRuns = 0
            /\ UNCHANGED <<queue, currentRun, isProcessing, isShuttingDown,
                           runCounter, runs, onProcessed, active, immediates,
                           cleanups, resolved, maxHistorySize>>
         ]_vars
    /\ [][RunTerminates =>
            /\ Len(history') > 0
            /\ history'[Len(history')] = termLog'[Len(termLog')]
            /\ history'[Len(history')] = currentRun
         ]_vars

\* the history was cleared between the termination of the first run and
\* that of the second, which is the only record of a history that has room
\* for two, with the third run executing
ClearHistoryFrameWitness ==
    /\ maxHistorySize = 2
    /\ termLog = <<1, 2>>
    /\ sinceClear = 1
    /\ history = <<2>>
    /\ currentRun = 3

\* C21: no step clears the shutdown flag; a cleanup() call made after an
\* earlier one changes neither the history, the runs, the current run nor the
\* running flag, resolves at once when no run is executing and sleeps
\* otherwise; a sleeping call resolves at the first wake-up that finds no run
\* executing; and whenever a call has resolved the queue is empty, no run is
\* executing and the flag is set.
CleanupIdempotent ==
    /\ [][isShuttingDown => isShuttingDown']_vars
    /\ [][(CleanupCalled /\ Cleanup) =>
            /\ UNCHANGED <<history, runs, currentRun, isProcessing, active,
                           runCounter, immediates, isShuttingDown>>
            /\ isProcessing => (cleanups' = cleanups + 1 /\ queue' = queue)
            /\ ~isProcessing =>
                  (resolved' /\ queue' = <<>> /\ cleanups' = cleanups)
         ]_vars
    /\ [][(CleanupPoll /\ ~isProcessing) =>
            /\ cleanups' = cleanups - 1
            /\ resolved'
            /\ queue' = <<>>
            /\ UNCHANGED <<history, runs, currentRun, isProcessing, active,
                           runCounter, immediates, isShuttingDown>>
         ]_vars
    /\ [](resolved =>
            isShuttingDown /\ queue = <<>> /\ ~isProcessing /\ currentRun = 0)

\* of two cleanup() calls that slept while the first run was executing one
\* has resolved and the other is still to wake up, the run being in the
\* history
CleanupIdempotentWitness ==
    /\ resolved
    /\ cleanups = 1
    /\ history = <<1>>
    /\ ~isProcessing

\* the execute call has settled
RetrySettled == retryPc \in {"resolved", "rejected"}

\* shouldRetry has answered true whenever it was called
AlwaysRetry == \A i \in 1..Len(consulted) : consulted[i].answer

\* the error execute throws for the n-th invocation, whether the operation
\* rejected with an Error or with a string
AttemptError(n) == [isError |-> TRUE, message |-> "failure-" \o ToString(n)]

\* C22: with maxAttempts >= 1 and shouldRetry always true, the operation is
\* invoked again only after a failure and at most maxAttempts times; execute
\* resolves exactly when an invocation resolves, with the result of that
\* invocation, which is the last one made; it rejects exactly when all
\* maxAttempts invocations failed, with the error of the last one.
RetryAttempts ==
    (maxAttempts >= 1 /\ AlwaysRetry) =>
        /\ opCalls <= maxAttempts
        /\ opCalls = Len(opOutcomes) + (IF retryPc = "operation" THEN 1 ELSE 0)
        /\ \A i \in 1..(Len(opOutcomes) - 1) : opOutcomes[i] # "resolve"
        /\ retryPc = "resolved" <=>
              (opOutcomes # <<>> /\ opOutcomes[Len(opOutcomes)] = "resolve")
        /\ retryPc = "resolved" =>
              settled = Some([ok |-> TRUE, value |-> OperationResult(opCalls)])
        /\ retryPc = "rejected" <=>
              /\ Len(opOutcomes) = maxAttempts
              /\ opOutcomes[maxAttempts] # "resolve"
        /\ retryPc = "rejected" =>
              /\ opCalls = maxAttempts
              /\ settled = Some([ok |-> FALSE,
                                 error |-> Some(AttemptError(maxAttempts))])
        /\ ~RetrySettled => settled = Undefined

\* with maxAttempts = 4 the operation failed twice, with an Error and with a
\* string, and succeeded at the third invocation
RetryAttemptsWitness ==
    /\ maxAttempts = 4
    /\ opOutcomes = <<"rejectError", "rejectValue", "resolve">>
    /\ AlwaysRetry
    /\ settled = Some([ok |-> TRUE, value |-> OperationResult(3)])
    /\ opCalls = 3

\* C23: shouldRetry is called once per failed attempt other than the last
\* allowed one, with the normalized error of that attempt; as soon as it
\* answers false the call is rejected with that error, the operation is not
\* invoked again and no delay is started.
ShouldRetryRespected ==
    /\ Len(consulted) <= Len(opOutcomes)
    /\ \A i \in 1..Len(consulted) :
          /\ i < maxAttempts
          /\ opOutcomes[i] # "resolve"
          /\ consulted[i].error = AttemptError(i)
          /\ ~consulted[i].answer =>
                /\ i = Len(consulted)
                /\ retryPc = "rejected"
                /\ settled = Some([ok |-> FALSE,
                                   error |-> Some(AttemptError(i))])
                /\ opCalls = i
                /\ Len(opOutcomes) = i
                /\ Len(delays) = i - 1
    /\ \A i \in 1..Len(opOutcomes) :
          (opOutcomes[i] # "resolve" /\ i < maxAttempts) => i <= Len(consulted)

\* of four allowed attempts the second one rejected with a string, and
\* shouldRetry, called with the Error made of it, answered false
ShouldRetryRespectedWitness ==
    /\ maxAttempts = 4
    /\ opOutcomes = <<"rejectError", "rejectValue">>
    /\ Len(consulted) = 2
    /\ consulted[1].answer
    /\ ~consulted[2].answer
    /\ retryPc = "rejected"

\* C24: the n-th delay is baseDelayMs * 2^(n-1) and follows the n-th failed
\* attempt; while a delay runs there are as many delays as attempts,
\* otherwise, and in particular once execute has settled, one less.
ExponentialBackoff ==
    /\ \A n \in 1..Len(delays) :
          /\ delays[n] = baseDelayMs * 2 ^ (n - 1)
          /\ opOutcomes[n] # "resolve"
    /\ retryPc = "delay" => Len(delays) = opCalls
    /\ (retryPc # "delay" /\ opCalls >= 1) => Len(delays) = opCalls - 1
    /\ opCalls = 0 => delays = <<>>

\* with baseDelayMs = 10 all four attempts failed: three delays, none after
\* the last attempt
ExponentialBackoffWitness ==
    /\ baseDelayMs = 10
    /\ maxAttempts = 4
    /\ retryPc = "rejected"
    /\ opCalls = 4
    /\ delays = <<10, 20, 40>>

\* the operation failed
Failing == Outcomes \ {"resolve"}

\* C25: with calls made one after the other, a CLOSED breaker has counted
\* fewer than failureThreshold failures; in CLOSED a failure adds one to the
\* count and opens the breaker exactly when the count reaches the threshold,
\* a success sets the count to 0 and leaves the breaker CLOSED, and nothing
\* else changes the count or the state.
Opening ==
    /\ [](state = "CLOSED" => failures < failureThreshold)
    /\ [][state = "CLOSED" =>
            /\ \A outcome \in Failing :
                  BreakerSettles("CLOSED", outcome) =>
                    /\ failures' = failures + 1
                    /\ state' = IF failures + 1 = failureThreshold
                                THEN "OPEN"
                                ELSE "CLOSED"
            /\ BreakerSettles("CLOSED", "resolve") =>
                  /\ failures' = 0
                  /\ state' = "CLOSED"
            /\ (SequentialExecute \/ BreakerTick) =>
                  /\ failures' = failures
                  /\ state' = "CLOSED"
       ]_vars

\* with failureThreshold = 2 the third and the fourth call, made at instant
\* 0, failed one after the other and the second failure opened the breaker
OpeningWitness ==
    /\ failureThreshold = 2
    /\ calls = 4
    /\ now = 0
    /\ state = "OPEN"
    /\ failures = 2
    /\ returned = Some([ok |-> FALSE, error |-> Thrown("rejectError")])

\* C26: an execute call made while the breaker is OPEN and less than
\* resetTimeoutMs after the last failure is rejected with the open-breaker
\* error, calls no operation and leaves state, failure count and
\* lastFailureTime as they are, whatever else is in flight.
OpenRejection ==
    [][(/\ BreakerExecute
        /\ state = "OPEN"
        /\ failedAt # Undefined
        /\ now - failedAt[1] < resetTimeoutMs) =>
          /\ returned' = Some([ok |-> FALSE, error |-> OpenError])
          /\ inFlight' = inFlight
          /\ state' = "OPEN"
          /\ failures' = failures
          /\ lastFailureTime' = lastFailureTime
      ]_vars

\* a call has just been refused one instant after the failure that opened
\* the breaker, the timeout being two
OpenRejectionWitness ==
    /\ state = "OPEN"
    /\ resetTimeoutMs = 2
    /\ lastFailureTime = Some(0)
    /\ now = 1
    /\ returned = Some([ok |-> FALSE, error |-> OpenError])

\* C27: an execute call made while the breaker is OPEN and at least
\* resetTimeoutMs after the last failure moves the breaker to HALF_OPEN and
\* calls the operation; when the operation of such a call resolves, the
\* breaker is CLOSED with failure count 0.
Recovery ==
    [][/\ (/\ BreakerExecute
           /\ state = "OPEN"
           /\ failedAt # Undefined
           /\ now - failedAt[1] >= resetTimeoutMs) =>
             /\ state' = "HALF_OPEN"
             /\ inFlight'["OPEN"] = inFlight["OPEN"] + 1
       /\ BreakerSettles("OPEN", "resolve") =>
             /\ state' = "CLOSED"
             /\ failures' = 0
      ]_vars

\* C28: when the operation of a call admitted in HALF_OPEN (the reset
\* attempt, or a call made while the breaker was HALF_OPEN) fails, the
\* breaker is OPEN, the failure count is one more, and execute rejects with
\* the error as the operation threw it.
HalfOpenFailure ==
    [][\A k \in {"OPEN", "HALF_OPEN"}, outcome \in Failing :
          BreakerSettles(k, outcome) =>
            /\ state' = "OPEN"
            /\ failures' = failures + 1
            /\ returned' = Some([ok |-> FALSE, error |-> Thrown(outcome)])
      ]_vars

\* the breaker is OPEN with nothing in flight and no lastFailureTime:
\* shouldAttemptReset is false at every instant
StuckOpen ==
    /\ state = "OPEN"
    /\ lastFailureTime = Undefined
    /\ NoneInFlight

\* C29: the breaker never reaches a state in which it is OPEN and refuses
\* every later call.
NeverStuckOpen == ~StuckOpen

\* C30: an execute call made while the breaker is HALF_OPEN with a trial in
\* flight does not call the operation.
HalfOpenAdmission ==
    [][(/\ BreakerExecute
        /\ state = "HALF_OPEN"
        /\ inFlight["OPEN"] + inFlight["HALF_OPEN"] > 0) =>
          inFlight' = inFlight
      ]_vars

\* C31: between any two slices, and at the instant the processed callback
\* is invoked, isRunning() is true exactly when getCurrentRun() is defined,
\* and the current run has status RUNNING; both are false/undefined before
\* the first enqueue and once every accepted run has terminated or has been
\* discarded.
RunningAgreement ==
    /\ isRunning(Pool) <=> getCurrentRun(Pool) # Undefined
    /\ getCurrentRun(Pool) # Undefined =>
          getCurrentRun(Pool)[1].status = RUNNING
    /\ \A k \in 1..Len(invoked) :
          invoked[k].isProcessing <=> invoked[k].currentRun # 0
    /\ runs = <<>> => ~isRunning(Pool)
    /\ (queue = <<>> /\ \A i \in RunIds : runs[i].status # RUNNING) =>
          /\ ~isRunning(Pool)
          /\ getCurrentRun(Pool) = Undefined

\* the second run is executing after the first one has failed, and a third
\* one is queued
RunningAgreementWitness ==
    /\ isRunning(Pool)
    /\ currentRun = 2
    /\ runs[1].status = FAILED
    /\ queue = <<3>>

\* the runs waiting in the queue
Queued == {i \in RunIds : i \in SeqToSet(queue)}

\* C32: getQueueSize() is the number of PENDING runs still in the queue,
\* every run of the queue is PENDING and the executing run is not among
\* them; as long as no run has terminated, after N accepted enqueue calls it
\* is at least N - 1 and at most N.
QueueSize ==
    /\ getQueueSize(Pool) =
          Cardinality({i \in Queued : runs[i].status = PENDING})
    /\ \A i \in Queued : runs[i].status = PENDING
    /\ currentRun \notin Queued
    /\ termLog = <<>> =>
          /\ getQueueSize(Pool) >= Len(runs) - 1
          /\ getQueueSize(Pool) <= Len(runs)

\* three enqueue calls and no termination yet: the first run is executing
\* and two are queued
QueueSizeWitness ==
    /\ Len(runs) = 3
    /\ termLog = <<>>
    /\ getQueueSize(Pool) = 2
    /\ runs[1].status = RUNNING

\* C33: for every run queuedAt <= startedAt <= completedAt as far as the
\* timestamps are set, queueTime = startedAt - queuedAt and duration =
\* completedAt - startedAt, and both are >= 0.
TimingFields ==
    \A i \in RunIds :
        LET run == runs[i] IN
        /\ run.startedAt # Undefined <=> run.queueTime # Undefined
        /\ run.completedAt # Undefined <=> run.duration # Undefined
        /\ run.completedAt # Undefined => run.startedAt # Undefined
        /\ run.startedAt # Undefined =>
              /\ run.queuedAt <= run.startedAt[1]
              /\ run.queueTime[1] = run.startedAt[1] - run.queuedAt
              /\ run.queueTime[1] >= 0
        /\ run.completedAt # Undefined =>
              /\ run.startedAt[1] <= run.completedAt[1]
              /\ run.duration[1] = run.completedAt[1] - run.startedAt[1]
              /\ run.duration[1] >= 0

\* C34: while the work function of the executing run has not settled,
\* isRunning() is true, that run is the current run and no cleanup() call has
\* resolved; and every step that does not settle it leaves the status of
\* every run as it is (no queued run is dispatched), only appends to the
\* queue, and resolves no cleanup() call, however often the timers of the
\* sleeping cleanup() calls fire.
HungTaskBlocks ==
    /\ [](active # {} =>
            /\ isRunning(Pool)
            /\ currentRun \in active
            /\ ~resolved)
    /\ [][\A r \in RunIds :
            (r \in active /\ r \in active') =>
              /\ \A i \in RunIds : runs'[i].status = runs[i].status
              /\ Len(queue') >= Len(queue)
              /\ SubSeq(queue', 1, Len(queue)) = queue
              /\ currentRun' = r
              /\ ~resolved'
       ]_vars

\* the first run is executing, two runs are queued behind it and two
\* cleanup() calls sleep in their loops
HungTaskBlocksWitness ==
    /\ active = {1}
    /\ queue = <<2, 3>>
    /\ isShuttingDown
    /\ cleanups = 2
    /\ ~resolved

\* the containers run i is in
Locations(i) ==
    (IF i \in SeqToSet(queue) THEN {"queue"} ELSE {})
        \cup (IF i = currentRun THEN {"current"} ELSE {})
        \cup (IF i \in SeqToSet(history) THEN {"history"} ELSE {})

\* C35: every run is in at most one of the queue, the current-run slot and
\* the history, and at most once; the runs of the queue are PENDING, the
\* current run is RUNNING, the runs of the history are COMPLETED or FAILED,
\* and getStats reports completedRuns + failedRuns = totalRuns.
RunLocation ==
    /\ \A i \in RunIds : Cardinality(Locations(i)) <= 1
    /\ Cardinality(SeqToSet(queue)) = Len(queue)
    /\ Cardinality(SeqToSet(history)) = Len(history)
    /\ \A i \in RunIds :
          /\ "queue" \in Locations(i) => runs[i].status = PENDING
          /\ "current" \in Locations(i) => runs[i].status = RUNNING
          /\ "history" \in Locations(i) => runs[i].status \in Terminal
    /\ getStats(Pool).completedRuns + getStats(Pool).failedRuns =
          getStats(Pool).totalRuns

\* the history holds a completed and a failed run while the third run is
\* executing
RunLocationWitness ==
    /\ history = <<1, 2>>
    /\ runs[1].status = COMPLETED
    /\ runs[2].status = FAILED
    /\ currentRun = 3
    /\ getStats(Pool).totalRuns = 2

\* C36: when the work function of a run settles and the processed callback
\* throws, the run is in the history, the running flag and the current-run
\* slot are cleared, and with a non-empty queue and no shutdown the
\* re-dispatch of the next run is scheduled.
ThrowingCallbackContained ==
    [][\A r \in RunIds, outcome \in Outcomes :
          (onProcessed # 0 /\ Settle(r, outcome, "throw")) =>
            /\ r \in SeqToSet(history')
            /\ ~isProcessing'
            /\ currentRun' = 0
            /\ (Len(queue') > 0 /\ ~isShuttingDown') =>
                  immediates' = immediates + 1
      ]_vars

\* C37: whatever maxHistorySize the pool was constructed with, the slice in
\* which a run terminates comes to its end: the trim loop has exited and the
\* run has left the current-run slot, so that the next run can be
\* dispatched.
TrimTerminates ==
    [][\A r \in RunIds, outcome \in Outcomes, beh \in CallbackBehaviours :
          Settle(r, outcome, beh) =>
            /\ ~spinning'
            /\ currentRun' # r
            /\ isProcessing' <=> currentRun' # 0
      ]_vars

====
